---- MODULE Spec2Model ----
(***************************************************************************)
(* Model of SemanticSplitter (src/src/utils/basetools/semantic_splitter.py) *)
(* One splitter object is constructed with its configuration; callers then *)
(* invoke split(text) one call after the other.  A call is followed        *)
(* statement by statement: the blank-text test, the segmentation, the      *)
(* batched embedding call, one loop iteration per sentence, the rendering. *)
(*                                                                         *)
(* Strings are sequences of characters over Chars.  Similarities and       *)
(* min_similarity are kept in hundredths (100 is 1.0), embedding           *)
(* coordinates in tenths, so that a dot product of two unit vectors is an  *)
(* exact integer.                                                          *)
(*                                                                         *)
(* Two more components are modelled after the splitter:                    *)
(* document_chunking_tool (src/src/utils/basetools/document_chunking_tool  *)
(* .py), one call of the tool on one document path, and ShortTermMemory    *)
(* (src/src/data/cache/redis_cache.py) with the Redis lists it keeps.      *)
(***************************************************************************)
EXTENDS Integers, Sequences, FiniteSets

\* ------------------------------------------------------------------ bounds

\* Longest text handed to split.
MaxTextLen == 4

\* Largest max_tokens a splitter is constructed with.
MaxTokensBound == 2

\* Largest overlap a splitter is constructed with.
MaxOverlap == 2

\* ------------------------------------------------------------- input sets

\* A word character (matches \w), a whitespace character, a sentence
\* punctuation character.
Chars == {"a", " ", "."}

Texts == UNION {[1..n -> Chars] : n \in 0..MaxTextLen}

\* max_tokens as given to the constructor; 0 is the non-positive case.
MaxTokensValues == 0..MaxTokensBound

\* overlap as given to the constructor; -1 is the negative case.
OverlapValues == -1..MaxOverlap

\* min_similarity in hundredths; 110 (1.1) lies outside [0,1].
MinSimilarityValues == {0, 60, 100, 110}

\* Unit vectors the embedding model may answer (coordinates in tenths).
EmbeddingPool == {<<10, 0>>, <<6, 8>>}

NoResult == "NoResult"

NoError == "NoError"

\* The failure of the embedding provider, as it reaches the caller.
EmbeddingUnavailable == "EmbeddingUnavailable"

IndexError == "IndexError"

\* ------------------------------------------------------------------- state

VARIABLES
    max_tokens,      \* SemanticSplitter.max_tokens
    min_similarity,  \* SemanticSplitter.min_similarity (hundredths)
    overlap,         \* SemanticSplitter.overlap
    pc,              \* position of the running split call
    text,            \* split's argument
    sentences,       \* local: List[str]
    sims,            \* local: adjacent-pair similarities (hundredths)
    chunks,          \* local: List[List[str]]
    counts,          \* local: List[int]
    i,               \* loop index: number of sentences already processed
    result,          \* the returned list, NoResult until split returns
    error,           \* the exception that left split, NoError otherwise
    encodeCalls,     \* the _model.encode calls made by this call of split:
                     \* the sentences passed and whether the model answered
    embeds,          \* the argument of a call of _pairwise_similarities that
                     \* is followed on its own; inside split the array is a
                     \* temporary that no step keeps
    frames,          \* the split calls of concurrent callers: for each
                     \* caller the position and the locals of its call
    document_path,   \* DocumentChunkingInput.document_path
    doc_exists,      \* whether a file is found at document_path
    doc_content,     \* what the loaders read from that file
    output,          \* the DocumentChunkingOutput the tool returned
    temp_files,      \* the temporary CSV files present on disk
    max_messages,    \* ShortTermMemory.max_messages
    redis_lists,     \* Redis: the list kept at each key, head first
    store_log        \* for each key, the messages passed to store since
                     \* the key was last deleted, oldest first

config == <<max_tokens, min_similarity, overlap>>

locals == <<text, sentences, sims, chunks, counts, i>>

\* The state of a call of document_chunking_tool.
tool_vars == <<document_path, doc_exists, doc_content, output, temp_files>>

\* The state of a ShortTermMemory and of its Redis server.
memory_vars == <<max_messages, redis_lists, store_log>>

\* State that the steps of a single split call leave alone.
aux == <<embeds, frames, tool_vars, memory_vars>>

vars == <<max_tokens, min_similarity, overlap, pc, text, sentences, sims,
          chunks, counts, i, result, error, encodeCalls, embeds, frames,
          document_path, doc_exists, doc_content, output, temp_files,
          max_messages, redis_lists, store_log>>

NoOutput == "NoOutput"

\* No call of document_chunking_tool is followed.
ToolUnused ==
    /\ document_path = <<>>
    /\ doc_exists = FALSE
    /\ doc_content = <<>>
    /\ output = NoOutput
    /\ temp_files = {}

\* No ShortTermMemory is followed.
MemoryUnused ==
    /\ max_messages = 15
    /\ redis_lists = <<>>
    /\ store_log = <<>>

\* ------------------------------------------------------- string functions

IsSpace(c) == c = " "

\* Characters that match \w: letters, digits and the underscore.
WordChars == {"a", "A", "B", "C", "1", "_"}

IsWordChar(c) == c \in WordChars

\* str.strip(): drop leading and trailing whitespace.
Strip(s) ==
    LET keep == {k \in 1..Len(s) : ~IsSpace(s[k])}
    IN  IF keep = {} THEN <<>>
        ELSE LET lo == CHOOSE k \in keep : \A m \in keep : k <= m
                 hi == CHOOSE k \in keep : \A m \in keep : m <= k
             IN  SubSeq(s, lo, hi)

\* Where the match of \w+ that starts at position from ends: the regular
\* expression is greedy and takes every word character that follows.
RECURSIVE MatchEnd(_, _)
MatchEnd(s, from) ==
    IF from < Len(s) /\ IsWordChar(s[from + 1]) THEN MatchEnd(s, from + 1)
    ELSE from

\* A findall for the pattern \w, which matches one character at a time.
RECURSIVE findall_words_single(_, _)
findall_words_single(s, from) ==
    IF from > Len(s) THEN <<>>
    ELSE IF ~IsWordChar(s[from]) THEN findall_words_single(s, from + 1)
    ELSE <<SubSeq(s, from, from)>> \o findall_words_single(s, from + 1)

\* re.findall(r"\w+", text), scanning from position from: the matches from
\* left to right, the scan resuming after each match.
RECURSIVE findall_words(_, _)
findall_words(s, from) ==
    IF from > Len(s) THEN <<>>
    ELSE IF ~IsWordChar(s[from]) THEN findall_words(s, from + 1)
    ELSE LET e == MatchEnd(s, from)
         IN  <<SubSeq(s, from, e)>> \o findall_words(s, e + 1)

\* len(re.findall(r"\w+", text))
_estimate_tokens(s) == Len(findall_words(s, 1))

RECURSIVE Join(_)
\* " ".join(c)
Join(c) ==
    IF c = <<>> THEN <<>>
    ELSE IF Len(c) = 1 THEN c[1]
    ELSE c[1] \o <<" ">> \o Join(Tail(c))

\* " ".join(c).strip()
Render(c) == Strip(Join(c))

RECURSIVE SumTokens(_)
\* sum(map(self._estimate_tokens, sents))
SumTokens(sents) ==
    IF sents = <<>> THEN 0
    ELSE _estimate_tokens(Head(sents)) + SumTokens(Tail(sents))

\* seq[start:] with Python's slice rules: a negative start counts from the
\* end, and a start outside the list is clamped, never an error.
PySliceFrom(seq, start) ==
    LET n    == Len(seq)
        from == IF start < 0
                THEN (IF n + start < 0 THEN 0 ELSE n + start)
                ELSE (IF start > n THEN n ELSE start)
    IN  SubSeq(seq, from + 1, n)

\* Whether seq[idx] is a valid Python subscript (-len <= idx < len).
PyIndexValid(seq, idx) == idx >= -Len(seq) /\ idx < Len(seq)

\* seq[idx] with Python's rules: a negative idx counts from the end.
PyIndex(seq, idx) == IF idx < 0 THEN seq[Len(seq) + idx + 1] ELSE seq[idx + 1]

\* ------------------------------------------------------------ segmentation

RECURSIVE Pieces(_, _, _)
\* The contiguous pieces of t that end at the positions in cuts and at the
\* end of t, starting with the piece that begins at position from.
Pieces(t, cuts, from) ==
    IF from > Len(t) THEN <<>>
    ELSE LET ends == {e \in cuts \cup {Len(t)} : e >= from}
             e    == CHOOSE x \in ends : \A y \in ends : x <= y
         IN  <<SubSeq(t, from, e)>> \o Pieces(t, cuts, e + 1)

\* The sentence spans the spaCy pipeline may report for a document: the
\* pipeline is an external library, so any division of the document into
\* consecutive spans is admitted, and so is a document without spans.
DocSents(t) ==
    {Pieces(t, cuts, 1) : cuts \in SUBSET (1..(Len(t) - 1))} \cup {<<>>}

\* [s.text.strip() for s in doc.sents if s.text.strip()]
StripNonEmpty(spans) ==
    LET stripped == [k \in 1..Len(spans) |-> Strip(spans[k])]
    IN  SelectSeq(stripped, LAMBDA s : s /= <<>>)

\* The sentence lists _sentences(text) may return.
_sentences(t) == {StripNonEmpty(spans) : spans \in DocSents(Strip(t))}

\* --------------------------------------------------------------- similarity

\* embeds[:-1]
AllButLast(seq) == SubSeq(seq, 1, Len(seq) - 1)

\* embeds[1:]
AllButFirst(seq) == SubSeq(seq, 2, Len(seq))

\* a * b for two arrays of the same shape: the products element by element.
Times(a, b) == [k \in 1..Len(a) |-> [d \in 1..Len(a[k]) |-> a[k][d] * b[k][d]]]

RECURSIVE SumRow(_)
SumRow(row) == IF row = <<>> THEN 0 ELSE Head(row) + SumRow(Tail(row))

\* np.sum(m, axis=1): the sum of each row.
SumAxis1(m) == [k \in 1..Len(m) |-> SumRow(m[k])]

\* A product of the leading rows with themselves (embeds[:-1] * embeds[:-1]).
adjacent_products_same(em) == Times(AllButLast(em), AllButLast(em))

\* embeds[:-1] * embeds[1:]
adjacent_products(em) == Times(AllButLast(em), AllButFirst(em))

\* _pairwise_similarities(em): empty below two rows, else the row sums
\* of the products of each row with the next.
_pairwise_similarities(em) ==
    IF Len(em) < 2 THEN <<>> ELSE SumAxis1(adjacent_products(em))

\* ----------------------------------------------------------- the loop body

Last(seq) == seq[Len(seq)]

\* A same_topic without the "not chunks[-1] or": sims is always consulted.
sims_consulted_always(chs) == TRUE

\* Whether same_topic consults sims: "or" evaluates its right operand only
\* when the left one, not chunks[-1], is false.
sims_consulted(chs) == Last(chs) /= <<>>

\* A subscript that is off by one (sims[i]).
sims_index_offByOne(idx) == idx

\* The subscript of sims in same_topic: i - 1.
sims_index(idx) == idx - 1

\* A same_topic without the test of the empty chunk (sims[i - 1] >=
\* min_similarity alone), false when there is no similarity to read.
same_topic_noEmptyTest(chs, sm, idx, minsim) ==
    IF idx = 0 THEN FALSE ELSE PyIndex(sm, sims_index(idx)) >= minsim

\* A same_topic whose threshold is open (> instead of >=).
same_topic_open(chs, sm, idx, minsim) ==
    IF ~sims_consulted(chs) THEN TRUE ELSE PyIndex(sm, sims_index(idx)) > minsim

\* A same_topic whose comparison is turned round (<= instead of >=).
same_topic_flipped(chs, sm, idx, minsim) ==
    IF ~sims_consulted(chs) THEN TRUE ELSE PyIndex(sm, sims_index(idx)) <= minsim

\* same_topic = not chunks[-1] or sims[i - 1] >= self.min_similarity
\* (evaluated only when the subscript is valid or chunks[-1] is empty).
same_topic(chs, sm, idx, minsim) ==
    IF ~sims_consulted(chs) THEN TRUE ELSE PyIndex(sm, sims_index(idx)) >= minsim

\* The evaluation of same_topic raises IndexError: the right operand is
\* evaluated and the subscript is out of range.
same_topic_raises(chs, sm, idx) ==
    sims_consulted(chs) /\ ~PyIndexValid(sm, sims_index(idx))

\* A fits that tests the sentence alone, forgetting the chunk's count.
fits_forgetsCount(cnts, tokens, maxtok) == tokens <= maxtok

\* A fits that tests the chunk's count before the sentence is added.
fits_ignoresTokens(cnts, tokens, maxtok) == Last(cnts) <= maxtok

\* A fits whose comparison is strict (< instead of <=).
fits_strict(cnts, tokens, maxtok) == Last(cnts) + tokens < maxtok

\* A fits that allows one token beyond the budget.
fits_plusOne(cnts, tokens, maxtok) == Last(cnts) + tokens <= maxtok + 1

\* fits = counts[-1] + tokens <= self.max_tokens
fits(cnts, tokens, maxtok) == Last(cnts) + tokens <= maxtok

\* An overlap that carries the leading sentences (chunks[-1][:overlap]).
overlap_sents_head(chs, ov) ==
    IF ov > 0
    THEN SubSeq(Last(chs), 1, IF ov > Len(Last(chs)) THEN Len(Last(chs)) ELSE ov)
    ELSE <<>>

\* An overlap that leaves out the last sentence of the closed chunk
\* (chunks[-1][-overlap-1:-1]).
overlap_sents_gap(chs, ov) ==
    IF ov /= 0 THEN PySliceFrom(AllButLast(Last(chs)), -ov) ELSE <<>>

\* An overlap that carries the whole closed chunk (chunks[-1][:]).
overlap_sents_all(chs, ov) == IF ov /= 0 THEN Last(chs) ELSE <<>>

\* overlap_sents = chunks[-1][-self.overlap:] if self.overlap else []
overlap_sents(chs, ov) ==
    IF ov /= 0 THEN PySliceFrom(Last(chs), -ov) ELSE <<>>

\* An append that puts the sentence at the head of the chunk.
extend_front(chunk, sent) == <<sent>> \o chunk

\* chunks[-1].append(sent)
extend(chunk, sent) == Append(chunk, sent)

\* A new chunk that puts the sentence before the carried ones.
new_chunk_sentFirst(carried, sent) == <<sent>> \o carried

\* overlap_sents + [sent]
new_chunk(carried, sent) == carried \o <<sent>>

\* A count for a new chunk that leaves the new sentence out.
new_count_carriedOnly(carried, tokens) == SumTokens(carried)

\* A count for a new chunk that leaves the carried sentences out.
new_count_uncharged(carried, tokens) == tokens

\* sum(map(self._estimate_tokens, overlap_sents)) + tokens
new_count(carried, tokens) == SumTokens(carried) + tokens

\* A rendering that keeps the chunks that hold no sentence.
RenderAll_keepsEmpty(chs) == [k \in 1..Len(chs) |-> Strip(Join(chs[k]))]

\* A rendering that takes the initial chunk for empty and skips it.
RenderAll_skipsFirst(chs) ==
    LET kept == SelectSeq(Tail(chs), LAMBDA c : c /= <<>>)
    IN  [k \in 1..Len(kept) |-> Strip(Join(kept[k]))]

\* [" ".join(c).strip() for c in chunks if c]
RenderAll(chs) ==
    LET kept == SelectSeq(chs, LAMBDA c : c /= <<>>)
    IN  [k \in 1..Len(kept) |-> Render(kept[k])]

RECURSIVE assemble(_, _, _, _, _, _, _, _)
\* The loop of split and its return statement as a function of the call's
\* inputs: the sentences from position k on are put into chs and cnts, then
\* the chunks are rendered; IndexError when same_topic raises.
assemble(ss, sm, k, chs, cnts, maxtok, minsim, ov) ==
    IF k = Len(ss) THEN RenderAll(chs)
    ELSE LET sent   == ss[k + 1]
             tokens == _estimate_tokens(sent)
         IN  IF same_topic_raises(chs, sm, k) THEN IndexError
             ELSE IF same_topic(chs, sm, k, minsim) /\ fits(cnts, tokens, maxtok)
             THEN assemble(ss, sm, k + 1,
                           [chs EXCEPT ![Len(chs)] = extend(@, sent)],
                           [cnts EXCEPT ![Len(cnts)] = @ + tokens],
                           maxtok, minsim, ov)
             ELSE LET carried == overlap_sents(chs, ov)
                  IN  assemble(ss, sm, k + 1,
                               Append(chs, new_chunk(carried, sent)),
                               Append(cnts, new_count(carried, tokens)),
                               maxtok, minsim, ov)

\* The sentences at the positions ps (counted from 0) of ss.
At(ss, ps) == [p \in 1..Len(ps) |-> ss[ps[p] + 1]]

RECURSIVE positions(_, _, _, _, _, _, _, _, _)
\* The loop of split over the sentences k..n-1 of ss, keeping for each chunk
\* the position i of each of its sentences in place of its text: pos are the
\* chunks so far, cnts their counts.
positions(ss, sm, k, n, pos, cnts, maxtok, minsim, ov) ==
    IF k = n \/ same_topic_raises(pos, sm, k) THEN pos
    ELSE LET tokens == _estimate_tokens(ss[k + 1])
         IN  IF same_topic(pos, sm, k, minsim) /\ fits(cnts, tokens, maxtok)
             THEN positions(ss, sm, k + 1, n,
                            [pos EXCEPT ![Len(pos)] = extend(@, k)],
                            [cnts EXCEPT ![Len(cnts)] = @ + tokens],
                            maxtok, minsim, ov)
             ELSE LET carried == overlap_sents(pos, ov)
                  IN  positions(ss, sm, k + 1, n,
                                Append(pos, new_chunk(carried, k)),
                                Append(cnts, new_count(At(ss, carried), tokens)),
                                maxtok, minsim, ov)

\* What split returns for the sentences ss and the similarities sm under a
\* configuration: lines 160-182 as a function.
split_of(ss, sm, maxtok, minsim, ov) ==
    IF ss = <<>> THEN <<>>
    ELSE assemble(ss, sm, 0, <<<<>>>>, <<0>>, maxtok, minsim, ov)

\* ------------------------------------------------------------------ actions

Init ==
    /\ max_tokens \in MaxTokensValues
    /\ min_similarity \in MinSimilarityValues
    /\ overlap \in OverlapValues
    /\ pc = "idle"
    /\ text = <<>>
    /\ sentences = <<>>
    /\ sims = <<>>
    /\ chunks = <<>>
    /\ counts = <<>>
    /\ i = 0
    /\ result = NoResult
    /\ error = NoError
    /\ encodeCalls = <<>>
    /\ embeds = <<>>
    /\ frames = <<>>
    /\ ToolUnused
    /\ MemoryUnused

\* A split that raises ValueError for blank text, as its docstring says.
Call_raisesOnBlank ==
    /\ pc = "idle"
    /\ \E t \in Texts :
        /\ text' = t
        /\ IF Strip(t) = <<>>
           THEN pc' = "raised" /\ error' = "ValueError"
           ELSE pc' = "segment" /\ error' = NoError
    /\ sentences' = <<>>
    /\ sims' = <<>>
    /\ chunks' = <<>>
    /\ counts' = <<>>
    /\ i' = 0
    /\ result' = NoResult
    /\ encodeCalls' = <<>>
    /\ UNCHANGED <<config, aux>>

\* split(text) is entered with a text of the set T;
\* "if not text or not text.strip(): return []".
CallOn(T) ==
    /\ pc = "idle"
    /\ \E t \in T :
        /\ text' = t
        /\ IF Strip(t) = <<>>
           THEN pc' = "done" /\ result' = <<>>
           ELSE pc' = "segment" /\ result' = NoResult
    /\ sentences' = <<>>
    /\ sims' = <<>>
    /\ chunks' = <<>>
    /\ counts' = <<>>
    /\ i' = 0
    /\ error' = NoError
    /\ encodeCalls' = <<>>
    /\ UNCHANGED <<config, aux>>

\* split(text) is entered.
Call == CallOn(Texts)

\* sentences = self._sentences(text); "if not sentences: return []".
Segment ==
    /\ pc = "segment"
    /\ \E ss \in _sentences(text) :
        /\ sentences' = ss
        /\ IF ss = <<>>
           THEN pc' = "done" /\ result' = <<>>
           ELSE pc' = "embed" /\ result' = NoResult
    /\ UNCHANGED <<config, text, sims, chunks, counts, i, error, encodeCalls, aux>>

\* An embedding step that encodes the sentences one call at a time.
EmbedReturns_perSentence ==
    /\ pc = "embed"
    /\ \E em \in [1..Len(sentences) -> EmbeddingPool] :
        sims' = _pairwise_similarities(em)
    /\ encodeCalls' = encodeCalls \o
            [k \in 1..Len(sentences) |-> [sents |-> <<sentences[k]>>, ok |-> TRUE]]
    /\ chunks' = <<<<>>>>
    /\ counts' = <<0>>
    /\ i' = 0
    /\ pc' = "loop"
    /\ UNCHANGED <<config, text, sentences, result, error, aux>>

\* sims = self._pairwise_similarities(self._embeddings(sentences)), the
\* model answering one vector per sentence; then chunks = [[]], counts = [0].
EmbedReturns ==
    /\ pc = "embed"
    /\ \E em \in [1..Len(sentences) -> EmbeddingPool] :
        sims' = _pairwise_similarities(em)
    /\ encodeCalls' = Append(encodeCalls, [sents |-> sentences, ok |-> TRUE])
    /\ chunks' = <<<<>>>>
    /\ counts' = <<0>>
    /\ i' = 0
    /\ pc' = "loop"
    /\ UNCHANGED <<config, text, sentences, result, error, aux>>

\* A failure of encode that is swallowed: split answers the empty list.
EmbedRaises_swallowed ==
    /\ pc = "embed"
    /\ encodeCalls' = Append(encodeCalls, [sents |-> sentences, ok |-> FALSE])
    /\ pc' = "done"
    /\ result' = <<>>
    /\ UNCHANGED <<config, text, sentences, sims, chunks, counts, i, error, aux>>

\* self._model.encode raises: nothing in split or _embeddings catches it.
EmbedRaises ==
    /\ pc = "embed"
    /\ encodeCalls' = Append(encodeCalls, [sents |-> sentences, ok |-> FALSE])
    /\ pc' = "raised"
    /\ error' = EmbeddingUnavailable
    /\ UNCHANGED <<config, text, sentences, sims, chunks, counts, i, result, aux>>

\* One iteration of "for i, sent in enumerate(sentences)".
LoopStep ==
    /\ pc = "loop"
    /\ i < Len(sentences)
    /\ LET sent   == sentences[i + 1]
           tokens == _estimate_tokens(sent)
       IN  IF same_topic_raises(chunks, sims, i)
           THEN /\ pc' = "raised"
                /\ error' = IndexError
                /\ UNCHANGED <<chunks, counts, i>>
           ELSE /\ IF same_topic(chunks, sims, i, min_similarity)
                      /\ fits(counts, tokens, max_tokens)
                   THEN /\ chunks' = [chunks EXCEPT ![Len(chunks)] = extend(@, sent)]
                        /\ counts' = [counts EXCEPT ![Len(counts)] = @ + tokens]
                   ELSE LET carried == overlap_sents(chunks, overlap)
                        IN  /\ chunks' = Append(chunks, new_chunk(carried, sent))
                            /\ counts' = Append(counts, new_count(carried, tokens))
                /\ i' = i + 1
                /\ UNCHANGED <<pc, error>>
    /\ UNCHANGED <<config, text, sentences, sims, result, encodeCalls, aux>>

\* A return that also clears the splitter's overlap (self.overlap = 0).
Return_resetsOverlap ==
    /\ pc = "loop"
    /\ i = Len(sentences)
    /\ result' = RenderAll(chunks)
    /\ pc' = "done"
    /\ overlap' = 0
    /\ UNCHANGED <<max_tokens, min_similarity, locals, error, encodeCalls, aux>>

\* return [" ".join(c).strip() for c in chunks if c]
Return ==
    /\ pc = "loop"
    /\ i = Len(sentences)
    /\ result' = RenderAll(chunks)
    /\ pc' = "done"
    /\ UNCHANGED <<config, locals, error, encodeCalls, aux>>

\* The call is over (returned or raised); its locals are discarded and the
\* splitter is ready for the next call.
Finish ==
    /\ pc \in {"done", "raised"}
    /\ pc' = "idle"
    /\ text' = <<>>
    /\ sentences' = <<>>
    /\ sims' = <<>>
    /\ chunks' = <<>>
    /\ counts' = <<>>
    /\ i' = 0
    /\ result' = NoResult
    /\ error' = NoError
    /\ encodeCalls' = <<>>
    /\ UNCHANGED <<config, aux>>

Next ==
    \/ Call
    \/ Segment
    \/ EmbedReturns
    \/ EmbedRaises
    \/ LoopStep
    \/ Return
    \/ Finish

Spec == Init /\ [][Next]_vars

\* ------------------------------------------- the specification's examples

\* The sentences "A.", "B." and "C.", one token each.
SentA == <<"A", ".">>

SentB == <<"B", ".">>

SentC == <<"C", ".">>

\* The text "A. B. C.".
ExampleTexts == {SentA \o <<" ">> \o SentB \o <<" ">> \o SentC}

\* A splitter constructed with one of the configurations of the examples.
ExampleInit ==
    /\ max_tokens \in {1, 2}
    /\ min_similarity \in {0, 110}
    /\ overlap \in {0, 1}
    /\ pc = "idle"
    /\ text = <<>>
    /\ sentences = <<>>
    /\ sims = <<>>
    /\ chunks = <<>>
    /\ counts = <<>>
    /\ i = 0
    /\ result = NoResult
    /\ error = NoError
    /\ encodeCalls = <<>>
    /\ embeds = <<>>
    /\ frames = <<>>
    /\ ToolUnused
    /\ MemoryUnused

\* split is entered with the text of the examples.
ExampleCall == CallOn(ExampleTexts)

ExampleNext ==
    \/ ExampleCall
    \/ Segment
    \/ EmbedReturns
    \/ EmbedRaises
    \/ LoopStep
    \/ Return
    \/ Finish

\* The calls of split on the text of the examples.
ExampleSpec == ExampleInit /\ [][ExampleNext]_vars

\* ------------------------------------------------- the chunks that are returned

WellFormed ==
    max_tokens > 0 /\ min_similarity >= 0 /\ min_similarity <= 100 /\ overlap >= 0

Min(a, b) == IF a <= b THEN a ELSE b

\* The chunks that are rendered: split returns one string for each.
OutChunks == SelectSeq(chunks, LAMBDA c : c /= <<>>)

\* How many sentences at the head of output chunk k were carried from the
\* chunk before it.
Carried(k) == IF k = 1 THEN 0 ELSE Min(overlap, Len(OutChunks[k - 1]))

\* Output chunk k without its carried prefix.
Own(k) == SubSeq(OutChunks[k], Carried(k) + 1, Len(OutChunks[k]))

RECURSIVE OwnConcat(_)
\* The sentences of output chunks 1..k, carried prefixes removed.
OwnConcat(k) == IF k = 0 THEN <<>> ELSE OwnConcat(k - 1) \o Own(k)

\* The string t holds the string s verbatim.
Contains(t, s) ==
    \E p \in 0..(Len(t) - Len(s)) : SubSeq(t, p + 1, p + Len(s)) = s

\* ------------------------------------------------------------------- claims

\* C1: under a well-formed configuration every sentence of the segmentation
\* appears verbatim in at least one of the chunks split returns.
C1_Coverage ==
    (pc = "done" /\ WellFormed) =>
        \A k \in 1..Len(sentences) :
            \E c \in 1..Len(result) : Contains(result[c], sentences[k])

\* A call that returned after its first sentence was too large for the
\* initial chunk and several chunks were opened.
C1_Witness ==
    /\ pc = "done"
    /\ WellFormed
    /\ Len(sentences) >= 2
    /\ chunks[1] = <<>>
    /\ Len(result) >= 2

\* C2: for any overlap >= 0, the returned chunks are the renderings of the
\* non-empty chunk lists, and the sentences of these chunks in output order,
\* each chunk without its carried prefix, are exactly the input sentences.
C2_OrderPreserved ==
    (pc = "done" /\ overlap >= 0) =>
        /\ Len(result) = Len(OutChunks)
        /\ \A k \in 1..Len(OutChunks) : result[k] = Render(OutChunks[k])
        /\ OwnConcat(Len(OutChunks)) = sentences

\* A call that returned chunks with a carried prefix of two sentences.
C2_Witness ==
    /\ pc = "done"
    /\ overlap = 2
    /\ Len(sentences) >= 3
    /\ \E k \in 2..Len(OutChunks) : Carried(k) = 2 /\ Len(OutChunks[k]) = 3

\* C3 as stated: the token sum of every returned chunk, carried prefix
\* excluded, is at most max_tokens unless the chunk is one single sentence
\* whose estimate exceeds max_tokens.
C3_BudgetAsStated ==
    (pc = "done" /\ WellFormed) =>
        \A k \in 1..Len(OutChunks) :
            \/ SumTokens(Own(k)) <= max_tokens
            \/ /\ Len(OutChunks[k]) = 1
               /\ _estimate_tokens(OutChunks[k][1]) > max_tokens

\* C3 amended: the token sum of every returned chunk, carried prefix
\* excluded, is at most max_tokens unless the chunk consists of its carried
\* prefix and one single sentence whose estimate exceeds max_tokens.
C3_Budget ==
    (pc = "done" /\ WellFormed) =>
        \A k \in 1..Len(OutChunks) :
            \/ SumTokens(Own(k)) <= max_tokens
            \/ /\ Len(Own(k)) = 1
               /\ _estimate_tokens(Own(k)[1]) > max_tokens

\* A call that returned a chunk made of a carried sentence and an oversize
\* sentence.
C3_Witness ==
    /\ pc = "done"
    /\ WellFormed
    /\ \E k \in 2..Len(OutChunks) :
          Carried(k) >= 1 /\ SumTokens(Own(k)) > max_tokens

\* C4 as stated: a chunk that holds a sentence whose estimate exceeds
\* max_tokens holds no other sentence, and a one-sentence input whose
\* estimate exceeds max_tokens yields exactly that sentence as the one chunk.
C4_OversizeAloneAsStated ==
    (pc = "done" /\ WellFormed) =>
        /\ \A k \in 1..Len(OutChunks) :
              (\E j \in 1..Len(OutChunks[k]) :
                  _estimate_tokens(OutChunks[k][j]) > max_tokens)
              => Len(OutChunks[k]) = 1
        /\ (Len(sentences) = 1 /\ _estimate_tokens(sentences[1]) > max_tokens)
              => result = <<sentences[1]>>

\* C4 amended: a sentence whose estimate exceeds max_tokens is the only
\* sentence its chunk holds besides the carried prefix (with overlap = 0 the
\* chunk holds nothing else), and a one-sentence input whose estimate exceeds
\* max_tokens yields exactly that sentence as the one chunk.
C4_OversizeAlone ==
    (pc = "done" /\ WellFormed) =>
        /\ \A k \in 1..Len(OutChunks) :
              (\E j \in 1..Len(Own(k)) :
                  _estimate_tokens(Own(k)[j]) > max_tokens)
              => /\ Len(Own(k)) = 1
                 /\ overlap = 0 => Len(OutChunks[k]) = 1
        /\ (Len(sentences) = 1 /\ _estimate_tokens(sentences[1]) > max_tokens)
              => result = <<sentences[1]>>

\* A call that returned with an oversize sentence after a smaller one.
C4_Witness ==
    /\ pc = "done"
    /\ WellFormed
    /\ Len(sentences) >= 2
    /\ _estimate_tokens(sentences[1]) <= max_tokens
    /\ _estimate_tokens(sentences[2]) > max_tokens
    /\ Len(result) >= 2

\* C5: for any overlap >= 0 and every pair of adjacent returned chunks k and
\* k+1, with m = min(overlap, number of sentences of chunk k): the first m
\* sentences of chunk k+1 are the last m sentences of chunk k, the sentence
\* after them is the input sentence that follows the last sentence of chunk
\* k (so that no more than m are shared), and no subscript error is raised.
C5_OverlapBound ==
    /\ error /= IndexError
    /\ (pc = "done" /\ overlap >= 0) =>
          \A k \in 1..(Len(OutChunks) - 1) :
              LET prev == OutChunks[k]
                  m    == Min(overlap, Len(prev))
              IN  /\ Len(OutChunks[k + 1]) > m
                  /\ SubSeq(OutChunks[k + 1], 1, m)
                        = SubSeq(prev, Len(prev) - m + 1, Len(prev))
                  /\ OutChunks[k + 1][m + 1] = sentences[Len(OwnConcat(k)) + 1]

\* A call that returned with overlap = 2 after a chunk of one sentence was
\* carried whole and a chunk of three sentences gave its last two.
C5_Witness ==
    /\ pc = "done"
    /\ overlap = 2
    /\ \E k \in 1..(Len(OutChunks) - 1) :
          Len(OutChunks[k]) = 1 /\ Len(OutChunks[k + 1]) = 2
    /\ \E k \in 1..(Len(OutChunks) - 1) :
          Len(OutChunks[k]) = 3 /\ Len(OutChunks[k + 1]) = 3

\* C6: when the similarity between sentence i-1 and sentence i equals
\* min_similarity and the current chunk's count plus the estimate of
\* sentence i is at most max_tokens, the iteration for sentence i appends it
\* to the current chunk, whose last sentence is sentence i-1.
C6_ThresholdClosed ==
    [][(/\ pc = "loop"
        /\ i >= 1
        /\ i < Len(sentences)
        /\ sims[i] = min_similarity
        /\ Last(counts) + _estimate_tokens(sentences[i + 1]) <= max_tokens)
       => (/\ Last(Last(chunks)) = sentences[i]
           /\ Len(chunks') = Len(chunks)
           /\ Last(chunks') = Append(Last(chunks), sentences[i + 1]))]_vars

\* Without overlap, the current chunk ends with two sentences whose
\* similarity equals min_similarity.
C6_Witness ==
    /\ pc = "loop"
    /\ overlap = 0
    /\ i >= 2
    /\ sims[i - 1] = min_similarity
    /\ Len(Last(chunks)) >= 2
    /\ Last(chunks)[Len(Last(chunks)) - 1] = sentences[i - 1]
    /\ Last(Last(chunks)) = sentences[i]

\* The error the specification asks for when the configuration is ill-formed.
InvalidConfiguration == "InvalidConfiguration"

\* C7: with an ill-formed configuration (max_tokens <= 0, min_similarity
\* outside [0,1] or overlap < 0) no call of split gets past its entry: it is
\* rejected with InvalidConfiguration, nothing is segmented, embedded or
\* assembled and no list of chunks is returned.
C7_InvalidConfigRejected ==
    (~WellFormed) =>
        /\ pc \in {"idle", "raised"}
        /\ pc = "raised" => error = InvalidConfiguration
        /\ result = NoResult
        /\ sentences = <<>>
        /\ encodeCalls = <<>>
        /\ chunks = <<>>

\* C8: when the embedding call of a split call has failed, the call has
\* ended raising the provider's failure, it returns no list, it made that
\* one embedding call only, and it holds no similarities, chunks or counts.
C8_EmbeddingFailurePropagates ==
    (\E c \in 1..Len(encodeCalls) : ~encodeCalls[c].ok) =>
        /\ pc = "raised"
        /\ error = EmbeddingUnavailable
        /\ result = NoResult
        /\ Len(encodeCalls) = 1
        /\ sims = <<>>
        /\ chunks = <<>>
        /\ counts = <<>>

\* A call whose embedding call for two or more sentences failed.
C8_Witness ==
    /\ pc = "raised"
    /\ Len(sentences) >= 2
    /\ Len(encodeCalls) = 1
    /\ ~encodeCalls[1].ok
    /\ encodeCalls[1].sents = sentences

\* C9: a split call makes no embedding call before its sentences are
\* segmented, none at all when it returns [] for blank text or for an empty
\* sentence list, and otherwise exactly one, made before any chunk exists
\* and passing the whole sentence list in order.
C9_OneEmbeddingCall ==
    /\ pc \in {"idle", "segment", "embed"} => encodeCalls = <<>>
    /\ (pc = "done" /\ sentences = <<>>) => encodeCalls = <<>>
    /\ (pc \in {"loop", "raised"} \/ (pc = "done" /\ sentences /= <<>>)) =>
          /\ Len(encodeCalls) = 1
          /\ encodeCalls[1].sents = sentences
    /\ chunks /= <<>> => Len(encodeCalls) = 1
    /\ (pc = "done" /\ result /= <<>>) => Len(encodeCalls) = 1

\* A call that returned chunks for three or more sentences.
C9_Witness ==
    /\ pc = "done"
    /\ Len(sentences) >= 3
    /\ result /= <<>>
    /\ Len(encodeCalls) = 1
    /\ encodeCalls[1].sents = sentences

C11_NoEmptyChunk ==
    /\ \A k \in 1..Len(sentences) :
          sentences[k] /= <<>> /\ Strip(sentences[k]) = sentences[k]
    /\ pc = "done" =>
          /\ \A k \in 1..Len(result) : result[k] /= <<>>
          /\ Len(result) = Cardinality({k \in 1..Len(chunks) : chunks[k] /= <<>>})

\* A call on a text with surrounding whitespace that returned after its
\* initial chunk stayed empty and was dropped.
C11_Witness ==
    /\ pc = "done"
    /\ Strip(text) /= text
    /\ Len(chunks) >= 2
    /\ chunks[1] = <<>>
    /\ Len(result) = Len(chunks) - 1

\* C12: the iteration for sentence 0 does not consult sims (also when there
\* is one sentence and sims is empty), and an iteration that consults sims,
\* for a sentence i >= 1, uses the subscript i-1, which lies in 0..n-2; no
\* IndexError is raised.
C12_NoLookupAtFirst ==
    /\ error /= IndexError
    /\ (pc = "loop" /\ i < Len(sentences)) =>
          /\ Len(sims) = Len(sentences) - 1
          /\ i = 0 => ~sims_consulted(chunks)
          /\ sims_consulted(chunks) =>
                /\ i >= 1
                /\ sims_index(i) = i - 1
                /\ sims_index(i) \in 0..(Len(sentences) - 2)

\* The only sentence of a call has been processed, sims being empty.
C12_Witness ==
    /\ pc = "loop"
    /\ Len(sentences) = 1
    /\ i = 1
    /\ sims = <<>>
    /\ error = NoError

RECURSIVE Processed(_)
\* How many sentences the chunks chs hold, not counting the sentences each
\* chunk carries from the chunk before it.
Processed(chs) ==
    IF chs = <<>> THEN 0
    ELSE IF Len(chs) = 1 THEN Len(chs[1])
    ELSE Processed(SubSeq(chs, 1, Len(chs) - 1))
           + Len(Last(chs)) - Min(overlap, Len(chs[Len(chs) - 1]))

\* C13: under a well-formed configuration the assembly pass raises nothing,
\* each iteration puts exactly one more sentence into the chunks until all
\* n are processed, an iteration or the return is always possible, and the
\* pass ends returning a list of strings.
C13_AssemblyTotal ==
    /\ [](WellFormed =>
            /\ error /= IndexError
            /\ pc = "raised" => chunks = <<>>
            /\ pc = "loop" =>
                  /\ i <= Len(sentences)
                  /\ Processed(chunks) = i
                  /\ ENABLED (LoopStep \/ Return)
            /\ (pc = "done" /\ sentences /= <<>>) =>
                  /\ i = Len(sentences)
                  /\ Processed(chunks) = Len(sentences)
                  /\ result \in Seq(Seq(Chars)))
    /\ [][(WellFormed /\ pc = "loop") =>
            IF i < Len(sentences)
            THEN pc' = "loop" /\ i' = i + 1
            ELSE pc' = "done"]_vars

\* A call under a well-formed configuration that returned after four
\* iterations.
C13_Witness ==
    /\ pc = "done"
    /\ WellFormed
    /\ Len(sentences) = 4
    /\ i = 4
    /\ Len(result) >= 1

\* C14: no step changes the splitter's configuration, a call starts with
\* nothing left from earlier calls, and what a call returns is a function of
\* its text, the configuration and the answers of the segmentation and
\* embedding libraries alone.
C14_Deterministic ==
    /\ [][UNCHANGED config]_vars
    /\ [](pc \in {"idle", "segment"} =>
            /\ sentences = <<>> /\ sims = <<>> /\ chunks = <<>> /\ counts = <<>>
            /\ i = 0 /\ result = NoResult /\ encodeCalls = <<>>)
    /\ [](pc = "done" =>
            result = IF Strip(text) = <<>> THEN <<>>
                     ELSE split_of(sentences, sims, max_tokens,
                                   min_similarity, overlap))

\* A call that returned several chunks with a carried sentence, for
\* sentences whose similarities differ.
C14_Witness ==
    /\ pc = "done"
    /\ overlap = 1
    /\ Len(sentences) >= 3
    /\ sims[1] /= sims[2]
    /\ Len(result) >= 2

\* ------------------------------------------- _pairwise_similarities alone

\* The longest array of embeddings handed to _pairwise_similarities.
MaxEmbeds == 3

\* Rows of an embeddings array, coordinates in tenths.
ProbeVectors == {<<10, 0>>, <<6, 8>>, <<0, 10>>, <<-8, 6>>}

ProbeEmbeds == UNION {[1..n -> ProbeVectors] : n \in 0..MaxEmbeds}

\* An array of embeddings is about to be handed to _pairwise_similarities.
SimInit ==
    /\ max_tokens = 200
    /\ min_similarity = 60
    /\ overlap = 0
    /\ pc = "similarities"
    /\ embeds \in ProbeEmbeds
    /\ text = <<>>
    /\ sentences = <<>>
    /\ sims = <<>>
    /\ chunks = <<>>
    /\ counts = <<>>
    /\ i = 0
    /\ result = NoResult
    /\ error = NoError
    /\ encodeCalls = <<>>
    /\ frames = <<>>
    /\ ToolUnused
    /\ MemoryUnused

\* sims = self._pairwise_similarities(embeds)
PairwiseSimilarities ==
    /\ pc = "similarities"
    /\ sims' = _pairwise_similarities(embeds)
    /\ pc' = "similarities_done"
    /\ UNCHANGED <<config, text, sentences, chunks, counts, i, result, error,
                   encodeCalls, aux>>

SimNext == PairwiseSimilarities

\* The calls of _pairwise_similarities on arrays of up to MaxEmbeds rows.
SimSpec == SimInit /\ [][SimNext]_vars

\* ------------------------------------------------ _estimate_tokens alone

\* The longest string handed to _estimate_tokens.
MaxProbeLen == 3

\* A letter, a digit, the underscore, a space and a punctuation mark.
ProbeChars == {"a", "1", "_", " ", "."}

ProbeTexts == UNION {[1..n -> ProbeChars] : n \in 0..MaxProbeLen}

\* A string is about to be handed to _estimate_tokens.
EstimateInit ==
    /\ max_tokens = 200
    /\ min_similarity = 60
    /\ overlap = 0
    /\ pc = "estimate"
    /\ text \in ProbeTexts
    /\ sentences = <<>>
    /\ sims = <<>>
    /\ chunks = <<>>
    /\ counts = <<>>
    /\ i = 0
    /\ result = NoResult
    /\ error = NoError
    /\ encodeCalls = <<>>
    /\ embeds = <<>>
    /\ frames = <<>>
    /\ ToolUnused
    /\ MemoryUnused

\* tokens = self._estimate_tokens(text)
EstimateTokens ==
    /\ pc = "estimate"
    /\ result' = _estimate_tokens(text)
    /\ pc' = "estimated"
    /\ UNCHANGED <<config, text, sentences, sims, chunks, counts, i, error,
                   encodeCalls, aux>>

EstimateNext == EstimateTokens

\* The calls of _estimate_tokens on strings of up to MaxProbeLen characters.
EstimateSpec == EstimateInit /\ [][EstimateNext]_vars

\* ------------------------------------- concurrent calls on one splitter

\* The threads calling split on the same SemanticSplitter.
Callers == {"c1", "c2"}

\* The texts the concurrent callers pass: "a", "a a" and a blank.
ConcTexts == {<<"a">>, <<"a", " ", "a">>, <<" ">>}

\* A store of chunks and counts shared by every invocation (self.chunks).
chunk_store_shared(c) == "c1"

\* "chunks = [[]]; counts = [0]" are locals: each invocation of split has
\* its own.
chunk_store(c) == c

\* The other locals of an invocation that has not started.
IdleCtl ==
    [pc |-> "idle", text |-> <<>>, sentences |-> <<>>, sims |-> <<>>, i |-> 0,
     result |-> NoResult, error |-> NoError]

\* frames.ctl[c]: the position and the locals text, sentences, sims, i of
\* caller c's invocation, and what it returned or raised.
Ctl(c) == frames.ctl[c]

\* The chunks and counts caller c's invocation works on.
Store(c) == frames.store[chunk_store(c)]

\* One splitter, no invocation started.
ConcInit ==
    /\ max_tokens \in {1, 2}
    /\ min_similarity = 60
    /\ overlap \in {0, 1}
    /\ pc = "concurrent"
    /\ frames = [ctl   |-> [c \in Callers |-> IdleCtl],
                 store |-> [c \in Callers |-> [chunks |-> <<>>, counts |-> <<>>]]]
    /\ text = <<>>
    /\ sentences = <<>>
    /\ sims = <<>>
    /\ chunks = <<>>
    /\ counts = <<>>
    /\ i = 0
    /\ result = NoResult
    /\ error = NoError
    /\ encodeCalls = <<>>
    /\ embeds = <<>>
    /\ ToolUnused
    /\ MemoryUnused

\* Caller c enters split(text); "if not text or not text.strip(): return []".
ConcCall(c) ==
    /\ Ctl(c).pc = "idle"
    /\ \E t \in ConcTexts :
        frames' = [frames EXCEPT !.ctl[c] =
            [IdleCtl EXCEPT !.text = t,
                            !.pc = IF Strip(t) = <<>> THEN "done" ELSE "segment",
                            !.result = IF Strip(t) = <<>> THEN <<>> ELSE NoResult]]
    /\ UNCHANGED <<config, pc, text, sentences, sims, chunks, counts, i, result,
                   error, encodeCalls, embeds, tool_vars, memory_vars>>

\* Caller c: sentences = self._sentences(text); "if not sentences: return []".
ConcSegment(c) ==
    /\ Ctl(c).pc = "segment"
    /\ \E ss \in _sentences(Ctl(c).text) :
        frames' = [frames EXCEPT !.ctl[c] =
            [@ EXCEPT !.sentences = ss,
                      !.pc = IF ss = <<>> THEN "done" ELSE "embed",
                      !.result = IF ss = <<>> THEN <<>> ELSE NoResult]]
    /\ UNCHANGED <<config, pc, text, sentences, sims, chunks, counts, i, result,
                   error, encodeCalls, embeds, tool_vars, memory_vars>>

\* Caller c: sims = self._pairwise_similarities(self._embeddings(sentences));
\* chunks = [[]]; counts = [0].
ConcEmbedReturns(c) ==
    /\ Ctl(c).pc = "embed"
    /\ \E em \in [1..Len(Ctl(c).sentences) -> EmbeddingPool] :
        frames' = [frames EXCEPT
            !.ctl[c] = [@ EXCEPT !.sims = _pairwise_similarities(em),
                                 !.i = 0,
                                 !.pc = "loop"],
            !.store[chunk_store(c)] = [chunks |-> <<<<>>>>, counts |-> <<0>>]]
    /\ UNCHANGED <<config, pc, text, sentences, sims, chunks, counts, i, result,
                   error, encodeCalls, embeds, tool_vars, memory_vars>>

\* Caller c: self._model.encode raises.
ConcEmbedRaises(c) ==
    /\ Ctl(c).pc = "embed"
    /\ frames' = [frames EXCEPT !.ctl[c] =
            [@ EXCEPT !.pc = "raised", !.error = EmbeddingUnavailable]]
    /\ UNCHANGED <<config, pc, text, sentences, sims, chunks, counts, i, result,
                   error, encodeCalls, embeds, tool_vars, memory_vars>>

\* Caller c: one iteration of "for i, sent in enumerate(sentences)".
ConcLoopStep(c) ==
    /\ Ctl(c).pc = "loop"
    /\ Ctl(c).i < Len(Ctl(c).sentences)
    /\ LET sent   == Ctl(c).sentences[Ctl(c).i + 1]
           tokens == _estimate_tokens(sent)
           chs    == Store(c).chunks
           cnts   == Store(c).counts
       IN  IF same_topic_raises(chs, Ctl(c).sims, Ctl(c).i)
           THEN frames' = [frames EXCEPT !.ctl[c] =
                    [@ EXCEPT !.pc = "raised", !.error = IndexError]]
           ELSE IF same_topic(chs, Ctl(c).sims, Ctl(c).i, min_similarity)
                   /\ fits(cnts, tokens, max_tokens)
                THEN frames' = [frames EXCEPT
                        !.ctl[c].i = @ + 1,
                        !.store[chunk_store(c)] =
                            [chunks |-> [chs EXCEPT ![Len(chs)] = extend(@, sent)],
                             counts |-> [cnts EXCEPT ![Len(cnts)] = @ + tokens]]]
                ELSE LET carried == overlap_sents(chs, overlap)
                     IN  frames' = [frames EXCEPT
                            !.ctl[c].i = @ + 1,
                            !.store[chunk_store(c)] =
                                [chunks |-> Append(chs, new_chunk(carried, sent)),
                                 counts |-> Append(cnts, new_count(carried, tokens))]]
    /\ UNCHANGED <<config, pc, text, sentences, sims, chunks, counts, i, result,
                   error, encodeCalls, embeds, tool_vars, memory_vars>>

\* Caller c: return [" ".join(c).strip() for c in chunks if c]
ConcReturn(c) ==
    /\ Ctl(c).pc = "loop"
    /\ Ctl(c).i = Len(Ctl(c).sentences)
    /\ frames' = [frames EXCEPT !.ctl[c] =
            [@ EXCEPT !.pc = "done", !.result = RenderAll(Store(c).chunks)]]
    /\ UNCHANGED <<config, pc, text, sentences, sims, chunks, counts, i, result,
                   error, encodeCalls, embeds, tool_vars, memory_vars>>

\* Caller c's call is over (returned or raised); it may call again.
ConcFinish(c) ==
    /\ Ctl(c).pc \in {"done", "raised"}
    /\ frames' = [frames EXCEPT !.ctl[c] = IdleCtl]
    /\ UNCHANGED <<config, pc, text, sentences, sims, chunks, counts, i, result,
                   error, encodeCalls, embeds, tool_vars, memory_vars>>

ConcNext ==
    \E c \in Callers :
        \/ ConcCall(c)
        \/ ConcSegment(c)
        \/ ConcEmbedReturns(c)
        \/ ConcEmbedRaises(c)
        \/ ConcLoopStep(c)
        \/ ConcReturn(c)
        \/ ConcFinish(c)

\* The interleavings of the callers' invocations, one step at a time.
ConcSpec == ConcInit /\ [][ConcNext]_vars

\* ------------------------------------------------ document_chunking_tool

\* FileType.TXT, FileType.PDF, FileType.DOCX: the values of the enumeration.
FileType_TXT == <<"t", "x", "t">>

FileType_PDF == <<"p", "d", "f">>

FileType_DOCX == <<"d", "o", "c", "x">>

\* The document paths handed to the tool: a.txt, a.TXT, a.Txt, a.pdf,
\* a.PDF, a.docx, a.DocX, a.md, a, txt, .txt, a.txt.bak, d.txt/a.
DocNames ==
    { <<"a", ".", "t", "x", "t">>, <<"a", ".", "T", "X", "T">>,
      <<"a", ".", "T", "x", "t">>, <<"a", ".", "p", "d", "f">>,
      <<"a", ".", "P", "D", "F">>, <<"a", ".", "d", "o", "c", "x">>,
      <<"a", ".", "D", "o", "c", "X">>, <<"a", ".", "m", "d">>,
      <<"a">>, <<"t", "x", "t">>, <<".", "t", "x", "t">>,
      <<"a", ".", "t", "x", "t", ".", "b", "a", "k">>,
      <<"d", ".", "t", "x", "t", "/", "a">> }

\* What the loaders read from the document: nothing, "a." or "a. a".
DocContents == {<<>>, <<"a", ".">>, <<"a", ".", " ", "a">>}

\* The return value None, which is no string.
None == <<"None">>

\* str.lower() of one character.
LowerChar(c) ==
    CASE c = "T" -> "t"
      [] c = "X" -> "x"
      [] c = "P" -> "p"
      [] c = "D" -> "d"
      [] c = "F" -> "f"
      [] OTHER -> c

\* str.lower()
Lower(str) == [k \in 1..Len(str) |-> LowerChar(str[k])]

\* The positions of the character c in str.
PositionsOf(str, c) == {k \in 1..Len(str) : str[k] = c}

\* The greatest element of a non-empty set of numbers.
Greatest(S) == CHOOSE x \in S : \A y \in S : y <= x

\* Path.name: the final component of the path.
PathName(path) ==
    IF PositionsOf(path, "/") = {} THEN path
    ELSE SubSeq(path, Greatest(PositionsOf(path, "/")) + 1, Len(path))

\* Path.suffix: the final component from its last dot on, the dot included,
\* or the empty string when it has no dot, starts with its only dot or ends
\* with a dot.
PathSuffix(path) ==
    LET name == PathName(path)
        dots == PositionsOf(name, ".")
    IN  IF dots = {} THEN <<>>
        ELSE LET d == Greatest(dots)
             IN  IF d > 1 /\ d < Len(name) THEN SubSeq(name, d, Len(name))
                 ELSE <<>>

\* file_extension == FileType.X: the comparison of two strings.
extension_is(file_extension, file_type) == file_extension = file_type

\* _load_document_content(doc_path), loaded being what the loader of the
\* matching type reads from the file.
_load_document_content(doc_path, loaded) ==
    LET file_extension == Lower(PathSuffix(doc_path))
    IN  IF extension_is(file_extension, FileType_TXT) THEN loaded
        ELSE IF extension_is(file_extension, FileType_PDF) THEN loaded
        ELSE IF extension_is(file_extension, FileType_DOCX) THEN loaded
        ELSE None

\* DocumentChunkingOutput(success, num_chunks, status)
Output(success, num_chunks, status) ==
    [success |-> success, num_chunks |-> num_chunks, status |-> status]

\* What one call of the tool can end with once the content is loaded and
\* not empty: the pairs of the output returned and the temporary files left
\* on disk.  The splitter may fail (model loading, embedding); split gives
\* the chunks; _create_temp_csv creates the file and may fail writing it,
\* leaving it behind; MilvusIndexer.run completes or raises, and the finally
\* clause removes the file in both cases.
ToolOutcomes(content) ==
    LET failed == Output(FALSE, 0, "failed")
        lists  == UNION {{split_of(ss, _pairwise_similarities(em), max_tokens,
                                   min_similarity, overlap) :
                              em \in [1..Len(ss) -> EmbeddingPool]} :
                            ss \in _sentences(content)}
    IN  {<<failed, temp_files>>}
        \cup {<<failed, temp_files>> : c \in {l \in lists : l = <<>>}}
        \cup UNION {{<<failed, temp_files \cup {"temp.csv"}>>,
                     <<failed, temp_files>>,
                     <<Output(TRUE, Len(c), "success"), temp_files>>} :
                        c \in {l \in lists : l /= <<>>}}

\* A document path has been handed to the tool.
ToolInit ==
    /\ document_path \in DocNames
    /\ doc_exists \in BOOLEAN
    /\ doc_content \in DocContents
    /\ output = NoOutput
    /\ temp_files = {}
    /\ pc = "tool"
    /\ max_tokens = 200
    /\ min_similarity = 60
    /\ overlap = 0
    /\ text = <<>>
    /\ sentences = <<>>
    /\ sims = <<>>
    /\ chunks = <<>>
    /\ counts = <<>>
    /\ i = 0
    /\ result = NoResult
    /\ error = NoError
    /\ encodeCalls = <<>>
    /\ embeds = <<>>
    /\ frames = <<>>
    /\ MemoryUnused

\* document_chunking_tool(input), from its entry to its return.
document_chunking_tool ==
    /\ pc = "tool"
    /\ pc' = "tool_returned"
    /\ IF ~doc_exists
       THEN /\ output' = Output(FALSE, 0, "not_found")
            /\ UNCHANGED temp_files
       ELSE LET content == _load_document_content(document_path, doc_content)
            IN  IF content = None
                THEN /\ output' = Output(FALSE, 0, "unsupported_format")
                     /\ UNCHANGED temp_files
                ELSE IF content = <<>>
                THEN /\ output' = Output(FALSE, 0, "empty")
                     /\ UNCHANGED temp_files
                ELSE \E o \in ToolOutcomes(content) :
                        /\ output' = o[1]
                        /\ temp_files' = o[2]
    /\ UNCHANGED <<config, locals, result, error, encodeCalls, embeds, frames,
                   document_path, doc_exists, doc_content, memory_vars>>

ToolNext == document_chunking_tool

\* One call of document_chunking_tool.
ToolSpec == ToolInit /\ [][ToolNext]_vars

\* ------------------------------------------------------- ShortTermMemory

\* The most store calls made on a key between two deletions of it.
MaxStores == 10

\* The session keys in use.
Keys == {"s1", "s2"}

\* max_messages as given to the constructor (15 when it is not given).
MaxMessagesValues == {0, 1, 2, 3, 15}

\* How many messages get_history_context shows at most ("[:8]").
HistoryWindow == 8

\* The bytes Redis keeps for the message m.
Encode(m) == [utf8 |-> m]

\* msg.decode("utf-8")
Decode(b) == b.utf8

\* The position (from 0) that a Redis index names in a list of n elements:
\* a negative index counts from the tail, -1 being the last element.
RedisIndex(n, idx) == IF idx < 0 THEN n + idx ELSE idx

\* LRANGE key start stop: the elements from start to stop, both included;
\* a start before the head is the head, a stop beyond the tail is the tail,
\* and a start after the stop or beyond the tail gives the empty list.
Lrange(list, start, stop) ==
    LET n  == Len(list)
        s0 == RedisIndex(n, start)
        e0 == RedisIndex(n, stop)
        st == IF s0 < 0 THEN 0 ELSE s0
        en == IF e0 >= n THEN n - 1 ELSE e0
    IN  IF st > en \/ st >= n THEN <<>> ELSE SubSeq(list, st + 1, en + 1)

\* LTRIM key start stop: the list keeps the elements LRANGE would return.
Ltrim(list, start, stop) == Lrange(list, start, stop)

\* LPUSH key value: the value becomes the head of the list.
Lpush(list, value) == <<value>> \o list

\* list(reversed(seq))
Reversed(seq) == [k \in 1..Len(seq) |-> seq[Len(seq) + 1 - k]]

\* seq[:k] for k >= 0
PyHead(seq, k) == SubSeq(seq, 1, IF k > Len(seq) THEN Len(seq) ELSE k)

\* The pieces a history context is put together from, other than messages.
HistoryHeader == [piece |-> "=== CONVERSATION HISTORY ==="]

ShowingLast == [piece |-> "[Showing last 8 messages]"]

HistoryFooter == [piece |-> "=== END HISTORY ==="]

Newline == [piece |-> "newline"]

\* The n-th message passed to store for a key.
Message(n) == [message |-> n]

RECURSIVE JoinLines(_)
\* "\n".join(lines), as the sequence of its pieces.
JoinLines(lines) ==
    IF lines = <<>> THEN <<>>
    ELSE IF Len(lines) = 1 THEN lines
    ELSE <<Head(lines), Newline>> \o JoinLines(Tail(lines))

\* What retrieve returns for the list kept at a key.
retrieve(list) ==
    LET messages == Lrange(list, 0, -1)
    IN  [k \in 1..Len(messages) |-> Decode(messages[k])]

\* What get_history_context returns for the list kept at a key: the string
\* as the sequence of its pieces, the empty string being <<>>.
get_history_context(list) ==
    LET history == retrieve(list)
        recent  == PyHead(Reversed(history), HistoryWindow)
    IN  IF Len(history) = 0 THEN <<>>
        ELSE <<Newline, HistoryHeader, Newline>>
             \o (IF Len(history) > HistoryWindow
                 THEN <<ShowingLast, Newline>> ELSE <<>>)
             \o JoinLines(recent)
             \o <<Newline, HistoryFooter, Newline, Newline>>

\* The last call on the memory returned nothing (store, delete), or no call
\* was made yet.
NoReturn == [op |-> "none", key |-> "none", value |-> <<>>]

\* A ShortTermMemory has been constructed with a max_messages of the set
\* capacities; Redis holds nothing at its keys.
MemoryInitWith(capacities) ==
    /\ max_messages \in capacities
    /\ redis_lists = [k \in Keys |-> <<>>]
    /\ store_log = [k \in Keys |-> <<>>]
    /\ pc = "memory"
    /\ result = NoReturn
    /\ max_tokens = 200
    /\ min_similarity = 60
    /\ overlap = 0
    /\ text = <<>>
    /\ sentences = <<>>
    /\ sims = <<>>
    /\ chunks = <<>>
    /\ counts = <<>>
    /\ i = 0
    /\ error = NoError
    /\ encodeCalls = <<>>
    /\ embeds = <<>>
    /\ frames = <<>>
    /\ ToolUnused

\* ShortTermMemory(max_messages=...)
MemoryInit == MemoryInitWith(MaxMessagesValues)

\* ShortTermMemory(): max_messages is 15.
DefaultMemoryInit == MemoryInitWith({15})

\* store(key, message): LPUSH, then LTRIM key 0 max_messages-1.  The
\* message is the next one of the key, named by its number.
store(key) ==
    /\ pc = "memory"
    /\ Len(store_log[key]) < MaxStores
    /\ LET message == Message(Len(store_log[key]) + 1)
       IN  /\ redis_lists' = [redis_lists EXCEPT ![key] =
                    Ltrim(Lpush(@, Encode(message)), 0, max_messages - 1)]
           /\ store_log' = [store_log EXCEPT ![key] = Append(@, message)]
    /\ result' = NoReturn
    /\ UNCHANGED <<config, pc, locals, error, encodeCalls, embeds, frames,
                   tool_vars, max_messages>>

\* retrieve(key) returns.
Retrieve(key) ==
    /\ pc = "memory"
    /\ result' = [op |-> "retrieve", key |-> key,
                  value |-> retrieve(redis_lists[key])]
    /\ UNCHANGED <<config, pc, locals, error, encodeCalls, embeds, frames,
                   tool_vars, memory_vars>>

\* delete(key): DEL key.
delete(key) ==
    /\ pc = "memory"
    /\ redis_lists' = [redis_lists EXCEPT ![key] = <<>>]
    /\ store_log' = [store_log EXCEPT ![key] = <<>>]
    /\ result' = NoReturn
    /\ UNCHANGED <<config, pc, locals, error, encodeCalls, embeds, frames,
                   tool_vars, max_messages>>

\* get_history_context(session_key) returns.
GetHistoryContext(key) ==
    /\ pc = "memory"
    /\ result' = [op |-> "get_history_context", key |-> key,
                  value |-> get_history_context(redis_lists[key])]
    /\ UNCHANGED <<config, pc, locals, error, encodeCalls, embeds, frames,
                   tool_vars, memory_vars>>

MemoryNext ==
    \E key \in Keys :
        \/ store(key)
        \/ Retrieve(key)
        \/ delete(key)
        \/ GetHistoryContext(key)

\* The calls made on one ShortTermMemory, one after the other.
MemorySpec == MemoryInit /\ [][MemoryNext]_vars

\* The calls made on a ShortTermMemory constructed with the default
\* max_messages.
DefaultMemorySpec == DefaultMemoryInit /\ [][MemoryNext]_vars

\* The call has returned for the sentences "A.", "B.", "C." under the
\* configuration (maxtok, minsim, ov).
ExampleDone(maxtok, minsim, ov) ==
    /\ pc = "done"
    /\ sentences = <<SentA, SentB, SentC>>
    /\ max_tokens = maxtok
    /\ min_similarity = minsim
    /\ overlap = ov

\* C16: for the sentences "A.", "B.", "C." with max_tokens=1,
\* min_similarity=0.0 and overlap=1 split returns "A.", "A. B.", "B. C.",
\* and the counts of the three chunks are 1, 2 and 2: the carried sentence is
\* charged to the chunk that carries it.
C16_ExampleOverlap ==
    ExampleDone(1, 0, 1) =>
        /\ result = <<SentA, SentA \o <<" ">> \o SentB, SentB \o <<" ">> \o SentC>>
        /\ counts = <<1, 2, 2>>

\* The call of C16 has returned three chunks.
C16_Witness == ExampleDone(1, 0, 1) /\ Len(result) = 3 /\ Len(counts) = 3

\* C17: for the sentences "A.", "B.", "C." with max_tokens=2, overlap=0 and
\* min_similarity=1.1, which no similarity reaches, split returns "A.", "B.",
\* "C.".
C17_ExampleUnreachable ==
    ExampleDone(2, 110, 0) => result = <<SentA, SentB, SentC>>

\* The call of C17 has returned, no similarity reaching min_similarity.
C17_Witness ==
    /\ ExampleDone(2, 110, 0)
    /\ \A k \in 1..Len(sims) : sims[k] < min_similarity
    /\ Len(result) = 3

\* C18: for the sentences "A.", "B.", "C." with max_tokens=2,
\* min_similarity=0.0 and overlap=0 split returns "A. B.", "C.".
C18_ExampleGreedy ==
    ExampleDone(2, 0, 0) => result = <<SentA \o <<" ">> \o SentB, SentC>>

\* The call of C18 has returned two chunks, every similarity passing.
C18_Witness ==
    /\ ExampleDone(2, 0, 0)
    /\ \A k \in 1..Len(sims) : sims[k] >= min_similarity
    /\ Len(result) = 2

\* What caller c's invocation returns when it runs alone on its text, its
\* sentences and its similarities.
AloneResult(c) ==
    IF Strip(Ctl(c).text) = <<>> \/ Ctl(c).sentences = <<>>
    THEN <<>>
    ELSE split_of(Ctl(c).sentences, Ctl(c).sims, max_tokens, min_similarity,
                  overlap)

\* C15: when several callers invoke split on the same splitter, in every
\* interleaving each caller is returned the chunk list it would get running
\* alone, and a step of one invocation changes no other invocation's locals,
\* chunks or counts.
C15_ConcurrentCallers ==
    /\ [](\A c \in Callers : Ctl(c).pc = "done" => Ctl(c).result = AloneResult(c))
    /\ [][\A c \in Callers :
            (frames.ctl[c] /= frames'.ctl[c] \/ frames.store[c] /= frames'.store[c])
                => \A d \in Callers \ {c} :
                      /\ frames.ctl[d] = frames'.ctl[d]
                      /\ frames.store[d] = frames'.store[d]]_vars

\* One caller has returned two chunks while the other is in the middle of
\* its loop with chunks of its own.
C15_Witness ==
    /\ pc = "concurrent"
    /\ Ctl("c1").pc = "done"
    /\ Len(Ctl("c1").result) = 2
    /\ Ctl("c2").pc = "loop"
    /\ Ctl("c2").i = 1
    /\ Len(Ctl("c2").sentences) = 2
    /\ Store("c2").chunks /= Store("c1").chunks

\* The dot product of two vectors of two coordinates.
DotOf(u, v) == u[1] * v[1] + u[2] * v[2]

\* C19: for n embedding vectors _pairwise_similarities returns max(n-1, 0)
\* scores, the k-th being the dot product of vector k and vector k+1; below
\* two vectors the result is empty.
C19_PairwiseSimilarities ==
    pc = "similarities_done" =>
        /\ Len(sims) = (IF Len(embeds) >= 1 THEN Len(embeds) - 1 ELSE 0)
        /\ \A k \in 1..Len(sims) : sims[k] = DotOf(embeds[k], embeds[k + 1])
        /\ Len(embeds) < 2 => sims = <<>>

\* Three vectors have given two different scores.
C19_Witness ==
    /\ pc = "similarities_done"
    /\ Len(embeds) = 3
    /\ Len(sims) = 2
    /\ sims[1] /= sims[2]

\* The positions of s where a maximal run of word characters starts.
RunStarts(s) ==
    {k \in 1..Len(s) : IsWordChar(s[k]) /\ (k = 1 \/ ~IsWordChar(s[k - 1]))}

\* C20: _estimate_tokens returns the number of maximal runs of word
\* characters of its argument, an integer >= 0 that is 0 when the argument
\* holds no word character (empty, whitespace, punctuation); it returns for
\* every string and raises nothing.
C20_EstimateTokens ==
    /\ pc = "estimate" => ENABLED EstimateTokens
    /\ pc = "estimated" =>
        /\ result \in Nat
        /\ result = Cardinality(RunStarts(text))
        /\ (\A k \in 1..Len(text) : ~IsWordChar(text[k])) => result = 0
        /\ error = NoError

\* A string of two runs of word characters has been counted.
C20_Witness ==
    /\ pc = "estimated"
    /\ Cardinality(RunStarts(text)) = 2
    /\ result = 2

\* The last m elements of a sequence.
LastOf(seq, m) == SubSeq(seq, Len(seq) - m + 1, Len(seq))

RECURSIVE Reference(_, _, _, _, _, _, _)
\* The reference single-pass algorithm from sentence k on: chs are the chunks
\* opened so far, the last of them the current one, whose count is the sum
\* of the estimates of its sentences.
Reference(ss, sm, k, chs, maxtok, minsim, ov) ==
    IF k = Len(ss)
    THEN LET kept == SelectSeq(chs, LAMBDA c : c /= <<>>)
         IN  [j \in 1..Len(kept) |-> Join(kept[j])]
    ELSE LET cur      == chs[Len(chs)]
             estimate == _estimate_tokens(ss[k + 1])
             topic    == IF cur = <<>> THEN TRUE
                         ELSE k > 0 /\ sm[k] >= minsim
             room     == SumTokens(cur) + estimate <= maxtok
             seed     == IF ov = 0 THEN <<>> ELSE LastOf(cur, Min(ov, Len(cur)))
         IN  IF topic /\ room
             THEN Reference(ss, sm, k + 1,
                            SubSeq(chs, 1, Len(chs) - 1) \o <<cur \o <<ss[k + 1]>>>>,
                            maxtok, minsim, ov)
             ELSE Reference(ss, sm, k + 1, chs \o <<seed \o <<ss[k + 1]>>>>,
                            maxtok, minsim, ov)

\* C23: for overlap >= 0 split returns what the reference single-pass
\* algorithm returns: from one empty chunk, sentence i joins the current
\* chunk exactly when (the chunk is empty or similarity[i-1] >=
\* min_similarity) and (count + estimate <= max_tokens), otherwise it opens a
\* new chunk after the last `overlap` sentences of the closed one; the output
\* is the non-empty chunks, each joined by single spaces, in opening order.
C23_MatchesReference ==
    (pc = "done" /\ overlap >= 0 /\ sentences /= <<>>) =>
        result = Reference(sentences, sims, 0, <<<<>>>>, max_tokens,
                           min_similarity, overlap)

\* A call has returned chunks made by a continuation, by a topic shift and
\* with carried sentences.
C23_Witness ==
    /\ pc = "done"
    /\ overlap >= 1
    /\ Len(sentences) = 4
    /\ Len(result) = 2
    /\ \E k \in 1..Len(sims) : sims[k] < min_similarity
    /\ \E k \in 1..Len(sims) : sims[k] >= min_similarity

\* C24: throughout the assembly pass chunks and counts have the same length
\* and each count is the sum of the token estimates of all the sentences of
\* its chunk, seed sentences included; when a chunk is opened its count is
\* the sum of the estimates of its seed sentences plus the tokens of the
\* sentence that opens it.
C24_CountsParallel ==
    /\ [](/\ Len(counts) = Len(chunks)
          /\ \A k \in 1..Len(chunks) : counts[k] = SumTokens(chunks[k]))
    /\ [][(pc = "loop" /\ Len(chunks') = Len(chunks) + 1) =>
            /\ Len(counts') = Len(counts) + 1
            /\ Last(counts') = SumTokens(AllButLast(Last(chunks')))
                                  + _estimate_tokens(sentences[i + 1])]_vars

\* The pass has opened a chunk seeded with a carried sentence of one token
\* in front of a sentence of one token.
C24_Witness ==
    /\ pc = "loop"
    /\ Len(chunks) >= 2
    /\ Len(Last(chunks)) = 2
    /\ _estimate_tokens(Last(chunks)[1]) = 1
    /\ _estimate_tokens(Last(chunks)[2]) = 1
    /\ Last(counts) = 2

\* The positions in sentences of the sentences of each chunk, after the i
\* iterations made so far.
ChunkPositions ==
    positions(sentences, sims, 0, i, <<<<>>>>, <<0>>, max_tokens,
              min_similarity, overlap)

\* The chunks hold the sentences found at the positions pos.
PositionsMatch(pos) ==
    /\ Len(pos) = Len(chunks)
    /\ \A k \in 1..Len(chunks) : chunks[k] = At(sentences, pos[k])

\* The positions ps are a run j, j+1, ..., m.
IsRun(ps) == \A p \in 1..(Len(ps) - 1) : ps[p + 1] = ps[p] + 1

\* C25: every chunk split builds holds the sentences of a run of positions
\* j, j+1, ..., m of the sentence list, its carried prefix included, without
\* gap and without repetition, in the original order.
C25_ContiguousRuns ==
    (pc \in {"loop", "done"} /\ chunks /= <<>>) =>
        LET pos == ChunkPositions
        IN  /\ PositionsMatch(pos)
            /\ \A k \in 1..Len(chunks) :
                  /\ IsRun(pos[k])
                  /\ chunks[k] /= <<>> =>
                        chunks[k] = SubSeq(sentences, pos[k][1] + 1,
                                           Last(pos[k]) + 1)

\* A chunk holds two carried sentences and the sentence that opened it.
C25_Witness ==
    /\ pc = "done"
    /\ overlap = 2
    /\ Len(chunks) >= 2
    /\ Len(Last(chunks)) = 3
    /\ Len(chunks[Len(chunks) - 1]) = 2
    /\ ChunkPositions[Len(chunks)] = <<0, 1, 2>>

\* How many sentences chunk k of the pass took over from chunk k-1 when it
\* was opened: the last `overlap` of them, all if there are fewer; a
\* negative overlap -m takes all but the first m.
SeedLen(k) ==
    IF k = 1 THEN 0
    ELSE IF overlap >= 0 THEN Min(overlap, Len(chunks[k - 1]))
    ELSE IF Len(chunks[k - 1]) + overlap > 0 THEN Len(chunks[k - 1]) + overlap
    ELSE 0

\* Chunk k accepted a continuation sentence: it holds more than its seed
\* and the sentence that opened it (the initial chunk is opened empty).
Continued(k) ==
    IF k = 1 THEN chunks[1] /= <<>> ELSE Len(chunks[k]) > SeedLen(k) + 1

\* C26: a chunk that accepted a continuation sentence has a token sum,
\* carried sentences included, of at most max_tokens, from the continuation
\* on; a chunk whose sum exceeds max_tokens is its carried prefix followed by
\* one sentence.
C26_ContinuedWithinBudget ==
    /\ []((pc \in {"loop", "done"}) =>
            \A k \in 1..Len(chunks) :
                /\ Continued(k) => SumTokens(chunks[k]) <= max_tokens
                /\ SumTokens(chunks[k]) > max_tokens =>
                      k >= 2 /\ Len(chunks[k]) = SeedLen(k) + 1)
    /\ [][(pc = "loop" /\ chunks' /= chunks /\ Len(chunks') = Len(chunks)) =>
            SumTokens(Last(chunks')) <= max_tokens]_vars

\* The pass holds a chunk with a carried sentence that accepted a
\* continuation and fills the budget, next to a chunk over the budget.
C26_Witness ==
    /\ pc = "done"
    /\ overlap = 1
    /\ \E k \in 2..Len(chunks) :
          /\ Continued(k)
          /\ SumTokens(chunks[k]) = max_tokens
    /\ \E k \in 2..Len(chunks) : SumTokens(chunks[k]) > max_tokens

\* The chunks that hold the sentence at position m, pos being the positions
\* held by each chunk.
Holders(pos, m) ==
    {k \in 1..Len(pos) : \E p \in 1..Len(pos[k]) : pos[k][p] = m}

\* C27: for overlap >= 0 each sentence is held by at least one and at most
\* overlap+1 of the chunks split returns, and the chunks that hold it are
\* consecutive; with overlap = 0 each sentence is held by exactly one chunk.
C27_BoundedDuplication ==
    (pc = "done" /\ overlap >= 0 /\ sentences /= <<>>) =>
        LET pos == ChunkPositions
        IN  /\ PositionsMatch(pos)
            /\ result = RenderAll(chunks)
            /\ \A m \in 0..(Len(sentences) - 1) :
                  LET held == Holders(pos, m)
                  IN  /\ held /= {}
                      /\ Cardinality(held) <= overlap + 1
                      /\ \A a \in held : \A b \in held :
                            \A c \in a..b : c \in held
                      /\ overlap = 0 => Cardinality(held) = 1

\* With overlap = 2 a sentence is held by three chunks.
C27_Witness ==
    /\ pc = "done"
    /\ overlap = 2
    /\ Len(result) >= 3
    /\ \E m \in 0..(Len(sentences) - 1) :
          Cardinality(Holders(ChunkPositions, m)) = 3

\* With overlap = 0 a call has returned three chunks.
C27_PartitionWitness ==
    /\ pc = "done"
    /\ overlap = 0
    /\ Len(result) = 3

\* C28: once sentence 0 has been processed the last chunk is never empty and
\* no chunk but the initial one is empty; the initial chunk is empty, and
\* dropped at rendering, exactly when the estimate of the first sentence
\* exceeds max_tokens; for n >= 1 sentences split returns between 1 and n
\* chunks.
C28_OnlyInitialChunkEmpty ==
    /\ (pc = "loop" /\ i = 0) => chunks = <<<<>>>>
    /\ (pc \in {"loop", "done"} /\ i >= 1) =>
          /\ Last(chunks) /= <<>>
          /\ \A k \in 2..Len(chunks) : chunks[k] /= <<>>
          /\ chunks[1] = <<>> <=> _estimate_tokens(sentences[1]) > max_tokens
    /\ (pc = "done" /\ sentences /= <<>>) =>
          /\ Len(result) >= 1
          /\ Len(result) <= Len(sentences)
          /\ Len(result) = Len(chunks) - (IF chunks[1] = <<>> THEN 1 ELSE 0)

\* The first sentence is over the budget: the initial chunk stayed empty
\* and split returned as many chunks as there are sentences.
C28_Witness ==
    /\ pc = "done"
    /\ Len(sentences) >= 2
    /\ _estimate_tokens(sentences[1]) > max_tokens
    /\ chunks[1] = <<>>
    /\ Len(result) = Len(sentences)

\* retrieve has just returned.
Retrieved == result.op = "retrieve"

\* C22: after any sequence of store calls on a key retrieve returns at most
\* max_messages messages, and they are the most recently stored ones, the
\* newest first.
C22_KeepsLatest ==
    (pc = "memory" /\ Retrieved) =>
        LET log  == store_log[result.key]
            kept == Min(max_messages, Len(log))
        IN  /\ Len(result.value) <= max_messages
            /\ result.value = Reversed(LastOf(log, kept))

\* get_history_context has just returned.
HistoryReturned == result.op = "get_history_context"

\* The messages a history context lists, in the order it lists them.
Listed(context) ==
    SelectSeq(context,
              LAMBDA x : x \notin {Newline, HistoryHeader, ShowingLast,
                                   HistoryFooter})

\* C30: get_history_context returns the empty string when no message is
\* stored for the session; otherwise it lists at most 8 messages, the most
\* recent stored ones, oldest first; when more than 8 messages are stored
\* the 8 listed are the last 8 stored.
C30_HistoryShowsLatest ==
    (pc = "memory" /\ HistoryReturned) =>
        LET log    == store_log[result.key]
            held   == Len(redis_lists[result.key])
            listed == Listed(result.value)
        IN  /\ held = 0 => result.value = <<>>
            /\ held > 0 =>
                  /\ Len(listed) >= 1
                  /\ Len(listed) <= HistoryWindow
                  /\ listed = LastOf(log, Len(listed))
            /\ held > HistoryWindow => listed = LastOf(log, HistoryWindow)

\* The path ends, in any letter case, with the extension ext after a
\* non-empty file name.
EndsWith(path, ext) ==
    /\ Len(PathName(path)) > Len(ext)
    /\ Lower(LastOf(PathName(path), Len(ext))) = ext

\* The document is a .txt, .pdf or .docx file.
SupportedDocument ==
    \/ EndsWith(document_path, <<".", "t", "x", "t">>)
    \/ EndsWith(document_path, <<".", "p", "d", "f">>)
    \/ EndsWith(document_path, <<".", "d", "o", "c", "x">>)

\* C21: for an existing document whose extension is .txt, .pdf or .docx, in
\* any letter case, _load_document_content returns what the matching loader
\* read, and the tool answers UNSUPPORTED_FORMAT only for documents with
\* another extension.
C21_LoadsByFileType ==
    (pc = "tool_returned" /\ doc_exists) =>
        /\ SupportedDocument =>
              _load_document_content(document_path, doc_content) = doc_content
        /\ output.status = "unsupported_format" => ~SupportedDocument

====
